---- MODULE Spec2Model ----
(***************************************************************************)
(* I-Bird attitude regulation module (regulator.c).                        *)
(*                                                                         *)
(* The module state is the set of file-scope variables of regulator.c      *)
(* (is_ready, reg_mode, rc_outputs, reference, yawRateFilter, reg_state,   *)
(* reg_state_buff), the part of the collaborators' state the regulator     *)
(* drives (running flag of the three PID controllers, servo enable line,   *)
(* the actuator commands issued) and the position of the three execution   *)
(* contexts: the caller of rgltrSetup, the periodic control cycle          *)
(* (rgltrRunController) and the telemetry reader (rgltrGetState).          *)
(*                                                                         *)
(* Floating point values are terms: Const(n) is the number n, Pid(ax, e)   *)
(* is the value ctrlRunPid returned for axis ax on error e, Filt(ax, e) is *)
(* the value dfilterApply returned for the filter of axis ax on sample e,  *)
(* Uninit(g) is the content of a local that was never assigned.            *)
(***************************************************************************)
EXTENDS Integers, Sequences, FiniteSets, TLC

VARIABLES
    is_ready,       \* regulator.c:96
    reg_mode,       \* regulator.c:97
    rc_outputs,     \* regulator.c:98
    reference,      \* regulator.c:99
    yawRateFilter,  \* regulator.c:93   "NULL" or "filter"
    reg_state,      \* regulator.c:101  the snapshot stored in each slot
    reg_state_buff, \* regulator.c:102  the pool: tag of each slot, active order
    running,        \* running flag of yawPid, pitchPid, rollPid
    servo_on,       \* enable line of the elevator servo
    ticks,          \* the local clock read by sclockGetLocalTicks
    setup_pc,       \* position of the caller inside rgltrSetup
    cyc,            \* position and locals of rgltrRunController
    issued,         \* actuator commands issued by the current/last cycle
    get,            \* position and locals of rgltrGetState
    dst,            \* the caller's buffer filled by rgltrGetState
    published,      \* history: time stamps handed to pbuffAddActive, in order
    delivered,      \* history: time stamps of the snapshots copied to dst
    reclaimed,      \* history: time stamps overwritten before being read
    rc_call         \* history: arguments of the last rgltrSetRemoteControlValues

vars == <<is_ready, reg_mode, rc_outputs, reference, yawRateFilter, reg_state,
          reg_state_buff, running, servo_on, ticks, setup_pc, cyc, issued,
          get, dst, published, delivered, reclaimed, rc_call>>

-----------------------------------------------------------------------------
(* Bounds of the model *)

\* number of control cycles that get past the is_ready test
MaxTicks == 1

\* the same, for the specification of the telemetry relay alone
MaxRelayTicks == 7

\* the same, for the specification with fair control cycles
MaxFairTicks == 2

-----------------------------------------------------------------------------
(* Constants of the program *)

REG_BUFF_SIZE == 5

REG_OFF == 0
REG_TRACK == 1
REG_REMOTE_CONTROL == 2

\* an unsigned char that is none of the three modes
FlagOther == 3

Flags == {REG_OFF, REG_TRACK, REG_REMOTE_CONTROL, FlagOther}

Axes == {"yaw", "pitch", "roll"}

Slots == 1..REG_BUFF_SIZE

\* the null pointer, as a slot handle
NULL == 0

-----------------------------------------------------------------------------
(* Floating point values *)

Const(n) == [op |-> "const", axis |-> "none", arg |-> n]
Pid(ax, e) == [op |-> "ctrlRunPid", axis |-> ax, arg |-> e]
Filt(ax, e) == [op |-> "dfilterApply", axis |-> ax, arg |-> e]
Uninit(g) == [op |-> "uninit", axis |-> "none", arg |-> g]

\* what an unassigned float local may hold: zero, or something else
Garbage == {0, 1}

\* inputs of rgltrSetRemoteControlValues: (thrust, steer, elevator)
RcInputs == {<<0, 0, 0>>, <<1, 2, 3>>}

-----------------------------------------------------------------------------
(* Quaternions <<w, x, y, z>> *)

QuatIdentity == <<1, 0, 0, 0>>
QuatZero == <<0, 0, 0, 0>>

\* half a turn about the y axis (pitch)
QuatHalfTurnY == <<0, 0, 1, 0>>

\* unit quaternions used as reference and pose
Quats == {QuatIdentity, QuatHalfTurnY}

quatConj(q) == <<q[1], -q[2], -q[3], -q[4]>>

quatMult(a, b) ==
    << a[1]*b[1] - a[2]*b[2] - a[3]*b[3] - a[4]*b[4],
       a[1]*b[2] + a[2]*b[1] + a[3]*b[4] - a[4]*b[3],
       a[1]*b[3] - a[2]*b[4] + a[3]*b[1] + a[4]*b[2],
       a[1]*b[4] + a[2]*b[3] - a[3]*b[2] + a[4]*b[1] >>

(* Binary angles, in quarter turns of the half angle: 1 is pi/2.  A bams16  *)
(* angle wraps at a full turn (4).                                        *)
BamsFullTurn == 4

bams16Acos(w) == IF w = 1 THEN 0 ELSE IF w = 0 THEN 1 ELSE 2

bams16Sin(b) == IF b = 1 THEN 1 ELSE IF b = 3 THEN -1 ELSE 0

bams16ToFloatRad(b) == b % BamsFullTurn

FloatDiv(a, b) == IF b = 0 THEN "NaN" ELSE a \div b

-----------------------------------------------------------------------------
(* Orientation error, rgltrRunController lines 294-312 *)

\* qerr = reference * conj(pose)
ErrorQuat(ref, pose) == quatMult(ref, quatConj(pose))

(* The possible values of the locals (a, yaw_err, pitch_err, roll_err)     *)
(* after the if/else on error.w.  In the a = 0 branch the local a is never *)
(* assigned: it holds whatever the stack held.                             *)
ExtractError(ref, pose) ==
    LET error == ErrorQuat(ref, pose)
        a_2 == bams16Acos(error[1])
        a == bams16ToFloatRad(a_2 * 2)
        sina_2 == bams16Sin(a_2)
        scale == FloatDiv(a, sina_2)
    IN  IF error[1] = 1
        THEN { [a |-> Uninit(g), yaw_err |-> 0, pitch_err |-> 0, roll_err |-> 0] :
                  g \in Garbage }
        ELSE { [a |-> Const(a),
                yaw_err |-> error[4] * scale,
                pitch_err |-> error[3] * scale,
                roll_err |-> error[2] * scale] }

-----------------------------------------------------------------------------
(* Axis control, lines 362-389 *)

runYawControl(run, yaw) ==
    IF ~run["yaw"] THEN Const(0) ELSE Pid("yaw", yaw)

runPitchControl(run, pitch) ==
    IF ~run["pitch"] THEN Const(0) ELSE Pid("pitch", pitch)

\* the final else missing: Off falls into the Track branch
ModeOutputs_OffAsTrack(mode, rc, run, yaw_err, pitch_err) ==
    IF mode = REG_REMOTE_CONTROL
    THEN [steer |-> Const(rc.steer),
          thrust |-> Const(rc.thrust),
          elevator |-> Const(rc.elevator)]
    ELSE [steer |-> runYawControl(run, yaw_err),
          elevator |-> runPitchControl(run, pitch_err),
          thrust |-> Const(rc.thrust)]

\* steer and thrust of the remote override exchanged
ModeOutputs_RcSwapped(mode, rc, run, yaw_err, pitch_err) ==
    IF mode = REG_REMOTE_CONTROL
    THEN [steer |-> Const(rc.thrust),
          thrust |-> Const(rc.steer),
          elevator |-> Const(rc.elevator)]
    ELSE IF mode = REG_TRACK
    THEN [steer |-> runYawControl(run, yaw_err),
          elevator |-> runPitchControl(run, pitch_err),
          thrust |-> Const(rc.thrust)]
    ELSE [steer |-> Const(0), thrust |-> Const(0), elevator |-> Const(0)]

\* thrust taken from an axis controller in Track
ModeOutputs_ThrustFromPid(mode, rc, run, yaw_err, pitch_err) ==
    IF mode = REG_REMOTE_CONTROL
    THEN [steer |-> Const(rc.steer),
          thrust |-> Const(rc.thrust),
          elevator |-> Const(rc.elevator)]
    ELSE IF mode = REG_TRACK
    THEN [steer |-> runYawControl(run, yaw_err),
          elevator |-> runPitchControl(run, pitch_err),
          thrust |-> runPitchControl(run, pitch_err)]
    ELSE [steer |-> Const(0), thrust |-> Const(0), elevator |-> Const(0)]

(* The mode branch of the cycle, lines 314-332 *)
ModeOutputs(mode, rc, run, yaw_err, pitch_err) ==
    IF mode = REG_REMOTE_CONTROL
    THEN [steer |-> Const(rc.steer),
          thrust |-> Const(rc.thrust),
          elevator |-> Const(rc.elevator)]
    ELSE IF mode = REG_TRACK
    THEN [steer |-> runYawControl(run, yaw_err),
          elevator |-> runPitchControl(run, pitch_err),
          thrust |-> Const(rc.thrust)]
    ELSE [steer |-> Const(0), thrust |-> Const(0), elevator |-> Const(0)]

\* the pitch error goes through the filter of its own axis
FilterPitchErr_OwnAxis(filter, pitch_err) ==
    IF filter # "NULL" THEN Filt("pitch", pitch_err) ELSE Const(pitch_err)

(* The cross-axis filter step, lines 334-336 *)
FilterPitchErr(filter, pitch_err) ==
    IF filter # "NULL" THEN Filt("yaw", pitch_err) ELSE Const(pitch_err)

-----------------------------------------------------------------------------
(* Telemetry snapshots *)

\* memset(dst, 0, sizeof(RegulatorStateStruct))
ZeroState ==
    [time |-> 0, ref |-> QuatZero, pose |-> QuatZero,
     error |-> [w |-> Const(0), x |-> Const(0), y |-> Const(0), z |-> Const(0)],
     u |-> <<Const(0), Const(0), Const(0)>>]

\* thrust and steer stored in each other's place
WriteState_SwappedU(time, ref, pose, a, roll_err, pitch_err, yaw_err, thrust, steer, elevator) ==
    [time |-> time, ref |-> ref, pose |-> pose,
     error |-> [w |-> a, x |-> Const(roll_err), y |-> pitch_err, z |-> Const(yaw_err)],
     u |-> <<steer, thrust, elevator>>]

\* the record written into the slot, lines 340-349
WriteState(time, ref, pose, a, roll_err, pitch_err, yaw_err, thrust, steer, elevator) ==
    [time |-> time, ref |-> ref, pose |-> pose,
     error |-> [w |-> a, x |-> Const(roll_err), y |-> pitch_err, z |-> Const(yaw_err)],
     u |-> <<thrust, steer, elevator>>]

-----------------------------------------------------------------------------
(* The slot pool (pbuff).  Every slot carries one tag; the active slots are *)
(* kept in the order they were made active, the idle slots in the order    *)
(* they became idle.                                                       *)

RECURSIVE Iota(_)
Iota(n) == IF n = 0 THEN <<>> ELSE Append(Iota(n - 1), n)

Without(q, s) == SelectSeq(q, LAMBDA x : x # s)

pbuffInit(size) ==
    [tag |-> [s \in 1..size |-> "idle"], idle |-> Iota(size), active |-> <<>>]

pbuffGetOldestActive(p) ==
    IF p.active = <<>>
    THEN [pool |-> p, item |-> NULL]
    ELSE [pool |-> [p EXCEPT !.tag[Head(p.active)] = "checked-out",
                             !.active = Tail(p.active)],
          item |-> Head(p.active)]

\* an idle slot; none if no slot is idle
pbuffGetIdle(p) ==
    IF p.idle = <<>>
    THEN [pool |-> p, item |-> NULL]
    ELSE [pool |-> [p EXCEPT !.tag[Head(p.idle)] = "checked-out",
                             !.idle = Tail(p.idle)],
          item |-> Head(p.idle)]

\* an idle slot if there is one, else the oldest active slot
pbuffForceGetIdleOldest(p) ==
    IF p.idle # <<>> THEN pbuffGetIdle(p) ELSE pbuffGetOldestActive(p)

pbuffAddActive(p, s) ==
    [tag |-> [p.tag EXCEPT ![s] = "active"],
     idle |-> Without(p.idle, s),
     active |-> Append(Without(p.active, s), s)]

pbuffReturn(p, s) ==
    [tag |-> [p.tag EXCEPT ![s] = "idle"],
     idle |-> Append(Without(p.idle, s), s),
     active |-> Without(p.active, s)]

-----------------------------------------------------------------------------
(* Initial state: the zero-initialised statics of regulator.c, before any  *)
(* call.                                                                   *)

AllStopped == [ax \in Axes |-> FALSE]
AllStarted == [ax \in Axes |-> TRUE]

\* locals of rgltrRunController when no cycle is in progress
CycIdle ==
    [pc |-> "idle", pose |-> QuatZero, a |-> Const(0),
     yaw_err |-> 0, pitch_err |-> Const(0), roll_err |-> 0,
     steer |-> Const(0), thrust |-> Const(0), elevator |-> Const(0),
     state |-> NULL]

GetIdle == [pc |-> "idle", src |-> NULL]

Init ==
    /\ is_ready = 0
    /\ reg_mode = REG_OFF
    /\ rc_outputs = [thrust |-> 0, steer |-> 0, elevator |-> 0]
    /\ reference = QuatZero
    /\ yawRateFilter = "NULL"
    /\ reg_state = [s \in Slots |-> ZeroState]
    /\ reg_state_buff = pbuffInit(REG_BUFF_SIZE)
    /\ running = AllStopped
    /\ servo_on = FALSE
    /\ ticks = 0
    /\ setup_pc = "idle"
    /\ cyc = CycIdle
    /\ issued = <<>>
    /\ get = GetIdle
    /\ dst = ZeroState
    /\ published = <<>>
    /\ delivered = <<>>
    /\ reclaimed = {}
    /\ rc_call = <<0, 0, 0>>

\* The caller serialises configuration calls with the control cycle and
\* with each other.  They are taken between two telemetry reads: a setter
\* and a step of rgltrGetState touch disjoint variables and commute, so
\* every state is reached with the setter taken first.
ConfigCallAllowed == setup_pc = "idle" /\ cyc.pc = "idle" /\ get.pc = "idle"

-----------------------------------------------------------------------------
(* rgltrSetup, lines 111-147 *)

\* servoSetup: configures the servo driver; may leave the enable line as it
\* is or switch it off
servoSetup(on) == {on, FALSE}

\* ctrlInitPidParams on the three controllers: may leave the running flags
\* as they are or clear them
ctrlInitPidParams(run) == {run, AllStopped}

\* dfilterCreate: a filter handle, or NULL when no filter could be made
dfilterCreate == {"filter", "NULL"}

\* lines 120-144: everything up to the final is_ready = 1.  The pool is
\* not initialised under a reader that holds one of its slots.
rgltrSetupBegin ==
    /\ ConfigCallAllowed
    /\ setup_pc' = "running"
    /\ is_ready' = 0
    /\ reg_mode' = REG_OFF
    /\ servo_on' \in servoSetup(servo_on)
    /\ running' \in ctrlInitPidParams(running)
    /\ reg_state_buff' = pbuffInit(REG_BUFF_SIZE)
    /\ reference' = QuatIdentity
    /\ yawRateFilter' \in dfilterCreate
    /\ UNCHANGED <<rc_call, rc_outputs, reg_state, ticks, cyc, issued, get, dst,
                   published, delivered, reclaimed>>

\* line 146
rgltrSetupEnd ==
    /\ setup_pc = "running"
    /\ cyc.pc = "idle"
    /\ setup_pc' = "idle"
    /\ is_ready' = 1
    /\ UNCHANGED <<rc_call, reg_mode, rc_outputs, reference, yawRateFilter, reg_state,
                   reg_state_buff, running, servo_on, ticks, cyc, issued,
                   get, dst, published, delivered, reclaimed>>

-----------------------------------------------------------------------------
(* rgltrSetMode, lines 149-171 *)

\* the remote control branch does not stop the controllers
SetModeResult_RcKeepsRunning(flag, cur) ==
    IF flag = REG_OFF
    THEN [reg_mode |-> flag, running |-> AllStopped, servo_on |-> FALSE]
    ELSE IF flag = REG_TRACK
    THEN [reg_mode |-> flag, running |-> AllStarted, servo_on |-> TRUE]
    ELSE IF flag = REG_REMOTE_CONTROL
    THEN [reg_mode |-> flag, running |-> cur.running, servo_on |-> TRUE]
    ELSE cur

\* the off branch does not stop the servo
SetModeResult_OffKeepsServo(flag, cur) ==
    IF flag = REG_OFF
    THEN [reg_mode |-> flag, running |-> AllStopped, servo_on |-> cur.servo_on]
    ELSE IF flag = REG_TRACK
    THEN [reg_mode |-> flag, running |-> AllStarted, servo_on |-> TRUE]
    ELSE IF flag = REG_REMOTE_CONTROL
    THEN [reg_mode |-> flag, running |-> AllStopped, servo_on |-> TRUE]
    ELSE cur

\* a flag that is no mode is taken for Off
SetModeResult_DefaultOff(flag, cur) ==
    IF flag = REG_TRACK
    THEN [reg_mode |-> flag, running |-> AllStarted, servo_on |-> TRUE]
    ELSE IF flag = REG_REMOTE_CONTROL
    THEN [reg_mode |-> flag, running |-> AllStopped, servo_on |-> TRUE]
    ELSE [reg_mode |-> REG_OFF, running |-> AllStopped, servo_on |-> FALSE]

\* (mode, running flags, servo enable) after rgltrSetMode(flag) called in
\* the state cur
SetModeResult(flag, cur) ==
    IF flag = REG_OFF
    THEN [reg_mode |-> flag, running |-> AllStopped, servo_on |-> FALSE]
    ELSE IF flag = REG_TRACK
    THEN [reg_mode |-> flag, running |-> AllStarted, servo_on |-> TRUE]
    ELSE IF flag = REG_REMOTE_CONTROL
    THEN [reg_mode |-> flag, running |-> AllStopped, servo_on |-> TRUE]
    ELSE cur

ModeState == [reg_mode |-> reg_mode, running |-> running, servo_on |-> servo_on]

rgltrSetMode(flag) ==
    /\ ConfigCallAllowed
    /\ LET r == SetModeResult(flag, ModeState) IN
        /\ reg_mode' = r.reg_mode
        /\ running' = r.running
        /\ servo_on' = r.servo_on
    /\ UNCHANGED <<rc_call, is_ready, rc_outputs, reference, yawRateFilter, reg_state,
                   reg_state_buff, ticks, setup_pc, cyc, issued, get, dst,
                   published, delivered, reclaimed>>

-----------------------------------------------------------------------------
(* Setters *)

\* rgltrSetYawRateFilter, lines 173-179
rgltrSetYawRateFilter ==
    /\ ConfigCallAllowed
    /\ yawRateFilter' \in dfilterCreate
    /\ UNCHANGED <<rc_call, is_ready, reg_mode, rc_outputs, reference, reg_state,
                   reg_state_buff, running, servo_on, ticks, setup_pc, cyc,
                   issued, get, dst, published, delivered, reclaimed>>

\* a null Quaternion pointer
NullQuat == <<>>

\* rgltrSetQuatRef, lines 248-253; ref = NULL is ignored
rgltrSetQuatRef(ref) ==
    /\ ConfigCallAllowed
    /\ reference' = IF ref = NullQuat THEN reference ELSE ref
    /\ UNCHANGED <<rc_call, is_ready, reg_mode, rc_outputs, yawRateFilter, reg_state,
                   reg_state_buff, running, servo_on, ticks, setup_pc, cyc,
                   issued, get, dst, published, delivered, reclaimed>>

\* the override also switches the regulator to remote control
rgltrSetRemoteControlValues_InfersMode(thrust, steer, elevator) ==
    /\ ConfigCallAllowed
    /\ rc_outputs' = [thrust |-> thrust, steer |-> steer, elevator |-> elevator]
    /\ rc_call' = <<thrust, steer, elevator>>
    /\ reg_mode' = REG_REMOTE_CONTROL
    /\ UNCHANGED <<is_ready, reference, yawRateFilter, reg_state,
                   reg_state_buff, running, servo_on, ticks, setup_pc, cyc,
                   issued, get, dst, published, delivered, reclaimed>>

\* rgltrSetRemoteControlValues, lines 255-261
rgltrSetRemoteControlValues(thrust, steer, elevator) ==
    /\ ConfigCallAllowed
    /\ rc_outputs' = [thrust |-> thrust, steer |-> steer, elevator |-> elevator]
    /\ rc_call' = <<thrust, steer, elevator>>
    /\ UNCHANGED <<is_ready, reg_mode, reference, yawRateFilter, reg_state,
                   reg_state_buff, running, servo_on, ticks, setup_pc, cyc,
                   issued, get, dst, published, delivered, reclaimed>>

\* rgltrSetYawPid, rgltrSetPitchPid, rgltrSetRollPid, rgltrSetYawRef,
\* rgltrSetPitchRef, rgltrSetRollRef, lines 196-239: gains, offset, weights,
\* saturation and set point of one controller; its running flag is not
\* touched
rgltrSetPid ==
    /\ ConfigCallAllowed
    /\ running' = running
    /\ UNCHANGED <<rc_call, is_ready, reg_mode, rc_outputs, reference, yawRateFilter,
                   reg_state, reg_state_buff, servo_on, ticks, setup_pc, cyc,
                   issued, get, dst, published, delivered, reclaimed>>

-----------------------------------------------------------------------------
(* rgltrRunController, lines 280-357 *)

\* the test of is_ready left out
IsReady_Always(r) == TRUE

\* line 288
IsReady(r) == r # 0

\* an idle slot or nothing: no active slot is reclaimed
AcquireState_IdleOnly(p) == pbuffGetIdle(p)

\* the oldest active slot is reclaimed even when a slot is idle
AcquireState_OldestFirst(p) ==
    IF p.active # <<>> THEN pbuffGetOldestActive(p) ELSE pbuffGetIdle(p)

\* line 338
AcquireState(p) == pbuffForceGetIdleOldest(p)

\* the servo command left out
ActuatorCommands_NoServo(steer, thrust, elevator) ==
    << [cmd |-> "mcSteer", val |-> steer],
       [cmd |-> "mcThrust", val |-> thrust] >>

\* lines 353-355
ActuatorCommands(steer, thrust, elevator) ==
    << [cmd |-> "mcSteer", val |-> steer],
       [cmd |-> "mcThrust", val |-> thrust],
       [cmd |-> "servoSet", val |-> elevator] >>

\* the filled slot is not handed to the pool: it stays checked-out
PublishState_Dropped(p, s) == p

\* line 350: the pool after the cycle hands over the filled slot s
PublishState(p, s) == pbuffAddActive(p, s)

\* the timer fires: the cycle is entered.  The cycles that get past the
\* is_ready test are bounded by max.
RunControllerEnter(max) ==
    /\ cyc.pc = "idle"
    /\ ticks < max \/ is_ready = 0
    /\ cyc' = [cyc EXCEPT !.pc = "entry"]
    /\ issued' = <<>>
    /\ UNCHANGED <<rc_call, is_ready, reg_mode, rc_outputs, reference, yawRateFilter,
                   reg_state, reg_state_buff, running, servo_on, ticks,
                   setup_pc, get, dst, published, delivered, reclaimed>>

\* line 288 when the regulator is not ready: return
RunControllerNotReady ==
    /\ cyc.pc = "entry"
    /\ ~IsReady(is_ready)
    /\ cyc' = CycIdle
    /\ UNCHANGED <<rc_call, is_ready, reg_mode, rc_outputs, reference, yawRateFilter,
                   reg_state, reg_state_buff, running, servo_on, ticks,
                   setup_pc, issued, get, dst, published, delivered, reclaimed>>

\* lines 290-338: read the pose, extract the error, branch on the mode,
\* filter the pitch error, acquire a slot
RunControllerCompute(pose) ==
    /\ cyc.pc = "entry"
    /\ IsReady(is_ready)
    /\ \E e \in ExtractError(reference, pose) :
         LET r == AcquireState(reg_state_buff)
             out == ModeOutputs(reg_mode, rc_outputs, running, e.yaw_err, e.pitch_err)
         IN  /\ cyc' = [pc |-> "write", pose |-> pose, a |-> e.a,
                        yaw_err |-> e.yaw_err,
                        pitch_err |-> FilterPitchErr(yawRateFilter, e.pitch_err),
                        roll_err |-> e.roll_err,
                        steer |-> out.steer, thrust |-> out.thrust,
                        elevator |-> out.elevator,
                        state |-> r.item]
             /\ reg_state_buff' = r.pool
             /\ reclaimed' =
                  IF r.item # NULL /\ reg_state_buff.tag[r.item] = "active"
                  THEN reclaimed \cup {reg_state[r.item].time}
                  ELSE reclaimed
    /\ UNCHANGED <<rc_call, is_ready, reg_mode, rc_outputs, reference, yawRateFilter,
                   reg_state, running, servo_on, ticks, setup_pc, issued, get,
                   dst, published, delivered>>

\* lines 339-351: fill the slot and hand it to the pool; nothing if no slot
\* was obtained
RunControllerPublish ==
    /\ cyc.pc = "write"
    /\ IF cyc.state # NULL
       THEN /\ ticks' = ticks + 1
            /\ reg_state' = [reg_state EXCEPT ![cyc.state] =
                   WriteState(ticks + 1, reference, cyc.pose, cyc.a, cyc.roll_err,
                              cyc.pitch_err, cyc.yaw_err, cyc.thrust, cyc.steer,
                              cyc.elevator)]
            /\ reg_state_buff' = PublishState(reg_state_buff, cyc.state)
            /\ published' = Append(published, ticks + 1)
       ELSE /\ ticks' = ticks + 1
            /\ UNCHANGED <<reg_state, reg_state_buff, published>>
    /\ cyc' = [cyc EXCEPT !.pc = "actuate"]
    /\ UNCHANGED <<rc_call, is_ready, reg_mode, rc_outputs, reference, yawRateFilter,
                   running, servo_on, setup_pc, issued, get, dst, delivered,
                   reclaimed>>

\* lines 353-355: command the actuators
RunControllerActuate ==
    /\ cyc.pc = "actuate"
    /\ issued' = issued \o ActuatorCommands(cyc.steer, cyc.thrust, cyc.elevator)
    /\ cyc' = [cyc EXCEPT !.pc = "return"]
    /\ UNCHANGED <<rc_call, is_ready, reg_mode, rc_outputs, reference, yawRateFilter,
                   reg_state, reg_state_buff, running, servo_on, ticks,
                   setup_pc, get, dst, published, delivered, reclaimed>>

\* line 357: the cycle returns
RunControllerReturn ==
    /\ cyc.pc = "return"
    /\ cyc' = CycIdle
    /\ UNCHANGED <<rc_call, is_ready, reg_mode, rc_outputs, reference, yawRateFilter,
                   reg_state, reg_state_buff, running, servo_on, ticks,
                   setup_pc, issued, get, dst, published, delivered, reclaimed>>

-----------------------------------------------------------------------------
(* rgltrGetState, lines 263-277 *)

\* the newest active slot taken instead of the oldest
GetStateTake_Newest(p) ==
    IF p.active = <<>>
    THEN [pool |-> p, item |-> NULL]
    ELSE LET n == Len(p.active) IN
         [pool |-> [p EXCEPT !.tag[p.active[n]] = "checked-out",
                             !.active = SubSeq(p.active, 1, n - 1)],
          item |-> p.active[n]]

\* the oldest active slot is read where it is, without being checked out
GetStateTake_Peek(p) ==
    IF p.active = <<>>
    THEN [pool |-> p, item |-> NULL]
    ELSE [pool |-> p, item |-> Head(p.active)]

\* line 267
GetStateTake(p) == pbuffGetOldestActive(p)

\* the memset left out: the buffer keeps what the last read put there
GetStateNoData_Stale(d) == d

\* line 269: the buffer after the no-data return, d being its old content
GetStateNoData(d) == ZeroState

\* lines 267-271: take the oldest active slot; no data: zero dst and return
rgltrGetStateTake ==
    /\ get.pc = "idle"
    /\ LET r == GetStateTake(reg_state_buff) IN
         IF r.item = NULL
         THEN /\ dst' = GetStateNoData(dst)
              /\ get' = [pc |-> "done", src |-> NULL]
              /\ UNCHANGED reg_state_buff
         ELSE /\ get' = [pc |-> "copy", src |-> r.item]
              /\ reg_state_buff' = r.pool
              /\ UNCHANGED dst
    /\ UNCHANGED <<rc_call, is_ready, reg_mode, rc_outputs, reference, yawRateFilter,
                   reg_state, running, servo_on, ticks, setup_pc, cyc, issued,
                   published, delivered, reclaimed>>

(* line 273: memcpy is not atomic, the control cycle can run in the middle  *)
(* of it.  It is taken in two parts: time, ref and pose, then error and u. *)
rgltrGetStateCopy ==
    /\ get.pc = "copy"
    /\ dst' = [dst EXCEPT !.time = reg_state[get.src].time,
                          !.ref = reg_state[get.src].ref,
                          !.pose = reg_state[get.src].pose]
    /\ get' = [get EXCEPT !.pc = "copy2"]
    /\ UNCHANGED <<rc_call, is_ready, reg_mode, rc_outputs, reference, yawRateFilter,
                   reg_state, reg_state_buff, running, servo_on, ticks,
                   setup_pc, cyc, issued, published, delivered, reclaimed>>

\* line 273, second part
rgltrGetStateCopyRest ==
    /\ get.pc = "copy2"
    /\ dst' = [dst EXCEPT !.error = reg_state[get.src].error,
                          !.u = reg_state[get.src].u]
    /\ delivered' = Append(delivered, dst.time)
    /\ get' = [get EXCEPT !.pc = "return"]
    /\ UNCHANGED <<rc_call, is_ready, reg_mode, rc_outputs, reference, yawRateFilter,
                   reg_state, reg_state_buff, running, servo_on, ticks,
                   setup_pc, cyc, issued, published, reclaimed>>

\* the slot is never given back: it stays checked-out
GetStateRelease_Leak(p, s) == p

\* line 275: the pool after the reader gives back the slot s
GetStateRelease(p, s) == pbuffReturn(p, s)

\* line 275
rgltrGetStateReturn ==
    /\ get.pc = "return"
    /\ reg_state_buff' = GetStateRelease(reg_state_buff, get.src)
    /\ get' = [get EXCEPT !.pc = "done"]
    /\ UNCHANGED <<rc_call, is_ready, reg_mode, rc_outputs, reference, yawRateFilter,
                   reg_state, running, servo_on, ticks, setup_pc, cyc, issued,
                   dst, published, delivered, reclaimed>>

\* lines 270, 277: the call has returned and the caller has the buffer;
\* get.src is NULL when the call found no data
rgltrGetStateDone ==
    /\ get.pc = "done"
    /\ get' = GetIdle
    /\ UNCHANGED <<rc_call, is_ready, reg_mode, rc_outputs, reference, yawRateFilter,
                   reg_state, reg_state_buff, running, servo_on, ticks,
                   setup_pc, cyc, issued, dst, published, delivered, reclaimed>>

-----------------------------------------------------------------------------
(* Specifications *)

Config ==
    \/ rgltrSetupBegin
    \/ rgltrSetupEnd
    \/ \E flag \in Flags : rgltrSetMode(flag)
    \/ rgltrSetYawRateFilter
    \/ \E ref \in Quats \cup {NullQuat} : rgltrSetQuatRef(ref)
    \/ \E v \in RcInputs : rgltrSetRemoteControlValues(v[1], v[2], v[3])
    \/ rgltrSetPid

Cycle(max, poses) ==
    \/ RunControllerEnter(max)
    \/ RunControllerNotReady
    \/ \E pose \in poses : RunControllerCompute(pose)
    \/ RunControllerPublish
    \/ RunControllerActuate
    \/ RunControllerReturn

Reader ==
    \/ rgltrGetStateTake
    \/ rgltrGetStateCopy
    \/ rgltrGetStateCopyRest
    \/ rgltrGetStateReturn
    \/ rgltrGetStateDone

Next == Config \/ Cycle(MaxTicks, Quats) \/ Reader

Spec == Init /\ [][Next]_vars

(* The control plane alone: configuration calls and control cycles.  The   *)
(* reader writes only get, dst, delivered and reg_state_buff, none of      *)
(* which the mode branch, rgltrSetMode or the is_ready test reads.         *)
ControlNext == Config \/ Cycle(MaxTicks, Quats)

ControlSpec == Init /\ [][ControlNext]_vars

(* Every operation of the module: configuration calls, control cycles and  *)
(* telemetry reads in any interleaving, the estimator reporting one pose.  *)
OpsNext == Config \/ Cycle(MaxTicks, {QuatHalfTurnY}) \/ Reader

OpsSpec == Init /\ [][OpsNext]_vars

(* The telemetry relay alone: one setup, then control cycles and reads in  *)
(* any interleaving, the mode staying Off.                                 *)
FirstSetup ==
    \/ (ticks = 0 /\ is_ready = 0 /\ rgltrSetupBegin)
    \/ rgltrSetupEnd

RelayNext == FirstSetup \/ Cycle(MaxRelayTicks, {QuatHalfTurnY}) \/ Reader

RelaySpec == Init /\ [][RelayNext]_vars

(* Setup, mode changes, control cycles and reads.  A cycle that was        *)
(* entered is straight-line code run by the periodic task: its steps are   *)
(* taken.  Nothing is assumed of the reader.                               *)
CycleSteps ==
    \/ RunControllerNotReady
    \/ RunControllerCompute(QuatHalfTurnY)
    \/ RunControllerPublish
    \/ RunControllerActuate
    \/ RunControllerReturn

FairNext ==
    \/ rgltrSetupBegin
    \/ rgltrSetupEnd
    \/ \E flag \in Flags : rgltrSetMode(flag)
    \/ RunControllerEnter(MaxFairTicks)
    \/ CycleSteps
    \/ Reader

FairSpec == Init /\ [][FairNext]_vars /\ WF_vars(CycleSteps)

-----------------------------------------------------------------------------
(* Properties of the mode branch and of the mode controller *)

Commands(steer, thrust, elevator) ==
    << [cmd |-> "mcSteer", val |-> steer],
       [cmd |-> "mcThrust", val |-> thrust],
       [cmd |-> "servoSet", val |-> elevator] >>

\* a cycle has issued its commands and has not returned yet; no
\* configuration call was taken since it was entered
CycleDone == cyc.pc = "return"

(* C1: a control cycle run while the mode is Off commands steer, thrust    *)
(* and elevator with exactly 0, 0, 0, whatever the reference, the pose,    *)
(* the remote override and the calls made before.                          *)
C1_OffCommandsZero ==
    (CycleDone /\ reg_mode = REG_OFF)
        => issued = Commands(Const(0), Const(0), Const(0))

\* a cycle in Off with a non-zero override, a non-zero orientation error
\* and controllers left running by an earlier Track mode
C1_Witness ==
    /\ CycleDone
    /\ reg_mode = REG_OFF
    /\ rc_call = <<1, 2, 3>>
    /\ reference = QuatHalfTurnY
    /\ cyc.pose = QuatIdentity
    /\ running = AllStarted
    /\ issued = Commands(Const(0), Const(0), Const(0))

(* C2: a control cycle run while the mode is RemoteControl commands the    *)
(* actuators with the (thrust, steer, elevator) of the most recent         *)
(* rgltrSetRemoteControlValues call, zero if there was none.               *)
C2_RemoteControlPassThrough ==
    (CycleDone /\ reg_mode = REG_REMOTE_CONTROL)
        => issued = Commands(Const(rc_call[2]), Const(rc_call[1]), Const(rc_call[3]))

\* a remote control cycle with a non-zero override and an orientation error
C2_Witness ==
    /\ CycleDone
    /\ reg_mode = REG_REMOTE_CONTROL
    /\ rc_call = <<1, 2, 3>>
    /\ reference = QuatHalfTurnY
    /\ cyc.pose = QuatIdentity
    /\ issued = Commands(Const(2), Const(1), Const(3))

(* C3: in a control cycle run while the mode is Track the thrust command   *)
(* is the thrust of the most recent remote override and no PID output;     *)
(* steer is the output of the yaw controller and elevator the output of    *)
(* the pitch controller.                                                   *)
C3_TrackThrustFromOverride ==
    (CycleDone /\ reg_mode = REG_TRACK)
        => /\ Len(issued) = 3
           /\ issued[2] = [cmd |-> "mcThrust", val |-> Const(rc_call[1])]
           /\ issued[1] = [cmd |-> "mcSteer",
                           val |-> [op |-> "ctrlRunPid", axis |-> "yaw",
                                    arg |-> cyc.yaw_err]]
           /\ issued[3] = [cmd |-> "servoSet",
                           val |-> [op |-> "ctrlRunPid", axis |-> "pitch",
                                    arg |-> cyc.pitch_err.arg]]

\* a Track cycle with a non-zero thrust override and a pitch error
C3_Witness ==
    /\ CycleDone
    /\ reg_mode = REG_TRACK
    /\ rc_call = <<1, 2, 3>>
    /\ cyc.pitch_err.arg # 0
    /\ issued[2].val = Const(1)
    /\ issued[3].val.op = "ctrlRunPid"

(* C4: whenever the mode is RemoteControl the yaw, pitch and roll          *)
(* controllers are all not running.                                        *)
C4_RemoteControlStopsControllers ==
    reg_mode = REG_REMOTE_CONTROL => \A ax \in Axes : ~running[ax]

\* remote control entered after a cycle was run in Track with the
\* controllers running
C4_Witness ==
    /\ reg_mode = REG_REMOTE_CONTROL
    /\ running = AllStopped
    /\ cyc.pc = "idle"
    /\ Len(issued) = 3
    /\ issued[1].val.op = "ctrlRunPid"

\* (mode, running flags, servo enable) the mode controller is specified to
\* reach for each target
AfterSetMode(target) ==
    IF target = REG_OFF
    THEN [reg_mode |-> REG_OFF, running |-> [ax \in Axes |-> FALSE], servo_on |-> FALSE]
    ELSE IF target = REG_TRACK
    THEN [reg_mode |-> REG_TRACK, running |-> [ax \in Axes |-> TRUE], servo_on |-> TRUE]
    ELSE [reg_mode |-> REG_REMOTE_CONTROL, running |-> [ax \in Axes |-> FALSE],
          servo_on |-> TRUE]

Modes == {REG_OFF, REG_TRACK, REG_REMOTE_CONTROL}

(* C5: rgltrSetMode(target) can be taken in every state where a            *)
(* configuration call may be made; the mode, the running flags and the     *)
(* servo enable it leaves depend on target alone; taken in a state that    *)
(* rgltrSetMode(target) has left, it changes nothing.                      *)
C5_SetModeDependsOnTargetOnly ==
    /\ [](ConfigCallAllowed => \A target \in Modes : ENABLED rgltrSetMode(target))
    /\ [][\A target \in Modes :
            rgltrSetMode(target)
                => /\ ModeState' = AfterSetMode(target)
                   /\ ModeState = AfterSetMode(target) => UNCHANGED vars]_vars

\* Track entered while a cycle run in RemoteControl is on record
C5_Witness ==
    /\ ModeState = AfterSetMode(REG_TRACK)
    /\ cyc.pc = "idle"
    /\ issued = Commands(Const(2), Const(1), Const(3))

(* C6: a control cycle entered while is_ready is 0 returns at once: no     *)
(* actuator command, no snapshot, no pose read, no PID or filter run, and  *)
(* mode, reference, remote override and pool as they were.                 *)
C6_NotReadyCycleIsNoOp ==
    [][(cyc.pc = "entry" /\ is_ready = 0 /\ cyc' # cyc)
          => /\ cyc' = CycIdle
             /\ issued' = <<>>
             /\ UNCHANGED <<is_ready, reg_mode, rc_outputs, reference,
                            yawRateFilter, reg_state, reg_state_buff, running,
                            servo_on, ticks, setup_pc, issued, get, dst,
                            published, delivered, reclaimed, rc_call>>]_vars

\* a cycle entered and returned without a command while rgltrSetup was
\* being run again after an earlier cycle
C6_Witness ==
    /\ is_ready = 0
    /\ setup_pc = "running"
    /\ cyc.pc = "idle"
    /\ issued = <<>>
    /\ ticks = 1

-----------------------------------------------------------------------------
(* Properties of the cycle as a whole *)

(* C7: a control cycle entered after setup runs to its end and issues one  *)
(* steer, one thrust and one elevator command, in every mode; in every     *)
(* state inside a cycle the next step of the cycle can be taken, whatever  *)
(* the reader does or fails to do.                                         *)
C7_CycleCompletes ==
    /\ [](cyc.pc # "idle" => ENABLED <<CycleSteps>>_vars)
    /\ [](cyc.pc \in {"entry", "write", "actuate"} => issued = <<>>)
    /\ [](CycleDone => /\ Len(issued) = 3
                       /\ issued[1].cmd = "mcSteer"
                       /\ issued[2].cmd = "mcThrust"
                       /\ issued[3].cmd = "servoSet")
    /\ (cyc.pc = "entry" /\ is_ready = 1) ~> CycleDone
    /\ CycleDone ~> (cyc.pc = "idle" /\ Len(issued) = 3)

\* a cycle in Off that has issued its commands while the reader sits
\* between its take and its copy
C7_Witness ==
    /\ CycleDone
    /\ reg_mode = REG_OFF
    /\ get.pc = "copy"
    /\ Len(issued) = 3

-----------------------------------------------------------------------------
(* Properties of the telemetry relay *)

Range(q) == {q[i] : i \in 1..Len(q)}

\* place of a published time stamp in the order of publication
Pos(t) == CHOOSE i \in 1..Len(published) : published[i] = t

\* published, neither copied to the reader nor overwritten
Unread == Range(published) \ (Range(delivered) \cup reclaimed)

\* time stamps of the active slots, oldest first
ActiveTimes ==
    [i \in 1..Len(reg_state_buff.active) |-> reg_state[reg_state_buff.active[i]].time]

LastN(q, n) == SubSeq(q, Len(q) - n + 1, Len(q))

(* C8: the snapshots delivered to the reader are a subsequence of the      *)
(* published ones, in publish order and without repetition; the slot a     *)
(* take hands out holds the oldest published snapshot that was neither     *)
(* read nor overwritten, and it is what the call returns; while nothing    *)
(* was overwritten the delivered snapshots are the first published ones.   *)
C8_TelemetryFifo ==
    /\ \A i \in 1..Len(delivered) : delivered[i] \in Range(published)
    /\ \A i, j \in 1..Len(delivered) :
          i < j => Pos(delivered[i]) < Pos(delivered[j])
    /\ get.pc = "copy"
          => /\ reg_state[get.src].time \in Unread
             /\ \A t \in Unread : Pos(reg_state[get.src].time) <= Pos(t)
    /\ (get.pc = "done" /\ get.src # NULL)
          => /\ dst.time = delivered[Len(delivered)]
             /\ dst.time # 0
    /\ reclaimed = {} => delivered = SubSeq(published, 1, Len(delivered))

\* six publishes without a take, then five takes: the first snapshot is
\* lost and the other five are delivered in order
C8_Witness ==
    /\ delivered = <<2, 3, 4, 5, 6>>
    /\ reclaimed = {1}
    /\ get.pc = "done"

\* no take has obtained a slot so far
NoTakeYet == delivered = <<>> /\ get.pc \in {"idle", "done"}

(* C9: while no take was made every publish succeeds; past the fifth each  *)
(* one overwrites the oldest active slot, so that the pool holds exactly   *)
(* the 5 most recent snapshots; an overwritten snapshot is never           *)
(* delivered.                                                              *)
C9_ForceReclaimKeepsNewest ==
    /\ Len(reg_state_buff.active) <= REG_BUFF_SIZE
    /\ NoTakeYet => published = Iota(ticks)
    /\ (NoTakeYet /\ Len(published) > REG_BUFF_SIZE /\ cyc.pc # "write")
          => /\ ActiveTimes = LastN(published, REG_BUFF_SIZE)
             /\ reclaimed = Range(SubSeq(published, 1, Len(published) - REG_BUFF_SIZE))
    /\ Range(delivered) \cap reclaimed = {}

\* seven publishes without a take: the pool holds the last five
C9_Witness ==
    /\ NoTakeYet
    /\ cyc.pc = "idle"
    /\ Len(published) = 7
    /\ ActiveTimes = <<3, 4, 5, 6, 7>>
    /\ reclaimed = {1, 2}

(* C10: rgltrGetState called when no slot is active can be taken, returns  *)
(* with the buffer all zero, whatever an earlier read left in it or in the *)
(* slots, and leaves the pool and the slots as they were.                  *)
C10_NoDataIsZero ==
    /\ [](get.pc = "idle" => ENABLED <<rgltrGetStateTake>>_vars)
    /\ [][(get.pc = "idle" /\ get'.pc # "idle" /\ reg_state_buff.active = <<>>)
             => /\ get' = [pc |-> "done", src |-> NULL]
                /\ dst' = ZeroState
                /\ UNCHANGED <<reg_state_buff, reg_state>>]_vars

\* a no-data return after an earlier read: the buffer is zero although the
\* slot that was read still holds the snapshot
C10_Witness ==
    /\ get = [pc |-> "done", src |-> NULL]
    /\ dst = ZeroState
    /\ delivered # <<>>
    /\ \E s \in Slots : /\ reg_state_buff.tag[s] = "idle"
                        /\ reg_state[s].time \in Range(delivered)

-----------------------------------------------------------------------------
(* Properties of the slot tags *)

\* the slots that carry the tag t
Tagged(t) == {s \in Slots : reg_state_buff.tag[s] = t}

\* the slot the reader holds between its take and its return, if any
ReaderHolds == IF get.pc \in {"copy", "copy2", "return"} THEN {get.src} ELSE {}

\* the slot the cycle holds between acquiring it and making it active
CycleHolds == IF cyc.pc = "write" /\ cyc.state # NULL THEN {cyc.state} ELSE {}

Tags == {"idle", "active", "checked-out"}

\* a pool whose slots carry the tags f, queued by slot number
PoolOf(f) ==
    [tag |-> f,
     idle |-> SelectSeq(Iota(REG_BUFF_SIZE), LAMBDA s : f[s] = "idle"),
     active |-> SelectSeq(Iota(REG_BUFF_SIZE), LAMBDA s : f[s] = "active")]

(* C11: the acquire of a control cycle yields no slot only when all 5      *)
(* slots are checked-out; the reader holds at most one checked-out slot    *)
(* and the cycle at most one, so every cycle that gets past the is_ready   *)
(* test obtains a slot and publishes.                                      *)
C11_PublishNeverFails ==
    /\ \A f \in [Slots -> Tags] :
          AcquireState(PoolOf(f)).item = NULL <=> \A s \in Slots : f[s] = "checked-out"
    /\ Cardinality(Tagged("checked-out") \ CycleHolds) <= 1
    /\ Tagged("checked-out") \ CycleHolds = ReaderHolds
    /\ AcquireState(reg_state_buff).item # NULL
    /\ cyc.pc \in {"write", "actuate", "return"} => cyc.state # NULL
    /\ cyc.pc = "idle" => Len(published) = ticks

\* the cycle obtained a slot while the reader held one and none was idle
C11_Witness ==
    /\ cyc.pc = "write"
    /\ cyc.state # NULL
    /\ get.pc = "copy"
    /\ get.src # cyc.state
    /\ Tagged("idle") = {}
    /\ Cardinality(Tagged("checked-out")) = 2

(* C12: once rgltrSetup has initialised the pool, in every state every     *)
(* slot carries exactly one of the three tags and sits in the queue of its *)
(* tag exactly once, so idle + active + checked-out = 5 and at most 5      *)
(* slots are active; the checked-out slots are the one the cycle holds     *)
(* between acquiring and publishing and the one the reader holds between   *)
(* take and return; pbuffInit leaves all 5 slots idle.                     *)
C12_TagsPartition ==
    /\ (setup_pc = "running" \/ is_ready = 1)
          => /\ \A s \in Slots : reg_state_buff.tag[s] \in Tags
             /\ Range(reg_state_buff.idle) = Tagged("idle")
             /\ Len(reg_state_buff.idle) = Cardinality(Tagged("idle"))
             /\ Range(reg_state_buff.active) = Tagged("active")
             /\ Len(reg_state_buff.active) = Cardinality(Tagged("active"))
             /\ Cardinality(Tagged("idle")) + Cardinality(Tagged("active"))
                  + Cardinality(Tagged("checked-out")) = REG_BUFF_SIZE
             /\ Len(reg_state_buff.active) <= REG_BUFF_SIZE
             /\ Tagged("checked-out") = CycleHolds \cup ReaderHolds
    /\ setup_pc = "running" => Tagged("idle") = Slots

\* all three tags in use: the cycle holds a slot it acquired, the reader
\* holds another, and idle and active slots are left
C12_Witness ==
    /\ is_ready = 1
    /\ cyc.pc = "write"
    /\ get.pc = "return"
    /\ Cardinality(Tagged("checked-out")) = 2
    /\ Tagged("idle") # {}
    /\ Tagged("active") # {}

(* C13: when a rgltrGetState call that copied a snapshot gives back its    *)
(* slot, the slot is idle; an idle slot stays idle until a cycle acquires  *)
(* it; a cycle that finds an idle slot acquires an idle one and leaves the *)
(* active, unread slots alone.                                             *)
C13_ReturnedSlotIsReused ==
    /\ [][(get.pc = "return" /\ get'.pc = "done")
             => /\ reg_state_buff'.tag[get.src] = "idle"
                /\ get.src \in Range(reg_state_buff'.idle)]_vars
    /\ [][\A s \in Slots :
             (reg_state_buff.tag[s] = "idle" /\ reg_state_buff'.tag[s] # "idle")
                => (cyc.pc = "entry" /\ cyc'.pc = "write" /\ cyc'.state = s)]_vars
    /\ [][(cyc.pc = "entry" /\ cyc'.pc = "write" /\ Tagged("idle") # {})
             => /\ reg_state_buff.tag[cyc'.state] = "idle"
                /\ reg_state_buff'.active = reg_state_buff.active
                /\ reclaimed' = reclaimed]_vars

\* five publishes, one read, then a cycle: it acquires the slot the reader
\* has just given back and the four unread snapshots stay
C13_Witness ==
    /\ cyc.pc = "write"
    /\ get.pc = "done"
    /\ get.src # NULL
    /\ cyc.state = get.src
    /\ Len(reg_state_buff.active) = REG_BUFF_SIZE - 1
    /\ reclaimed = {}

-----------------------------------------------------------------------------
(* Properties of the snapshot a cycle publishes *)

\* the cycle has published its snapshot and no call has been made since
Published == cyc.pc \in {"actuate", "return"} /\ cyc.state # NULL

\* the snapshot the cycle has published
Snapshot == reg_state[cyc.state]

\* the float v holds 0.0
IsZero(v) == v = Const(0) \/ v = Uninit(0)

\* the pitch error the cycle extracted, as the mode branch saw it
RawPitchErr == (CHOOSE e \in ExtractError(reference, cyc.pose) : TRUE).pitch_err

(* C14: a control cycle whose pose equals the reference (error quaternion  *)
(* w = 1) has zero yaw, pitch and roll errors and a zero rotation angle,   *)
(* and the snapshot it publishes records the angle 0 in error.w.           *)
C14_ZeroRotationRecordsZeroAngle ==
    (Published /\ ErrorQuat(reference, cyc.pose)[1] = 1)
        => /\ cyc.yaw_err = 0
           /\ cyc.pitch_err.arg = 0
           /\ cyc.roll_err = 0
           /\ IsZero(cyc.a)
           /\ IsZero(Snapshot.error.w)

-----------------------------------------------------------------------------
(* Frame properties of the mode *)

(* C15: the mode is Off initially and is changed by rgltrSetMode alone: no *)
(* step of rgltrSetup, of a control cycle, of a setter or of rgltrGetState *)
(* changes it.                                                             *)
C15_ModeChangedOnlyBySetMode ==
    /\ reg_mode = REG_OFF
    /\ [][reg_mode' # reg_mode => \E flag \in Flags : rgltrSetMode(flag)]_vars

(* C15, amended: the mode is Off initially and is changed only by          *)
(* rgltrSetMode, which sets it to its argument, and by rgltrSetup, which   *)
(* sets it to Off; no step of a control cycle, of another setter or of     *)
(* rgltrGetState changes it.                                               *)
C15_ModeChangedBySetModeOrSetup ==
    /\ reg_mode = REG_OFF
    /\ [][reg_mode' # reg_mode
             => \/ \E flag \in Modes : rgltrSetMode(flag) /\ reg_mode' = flag
                \/ rgltrSetupBegin /\ reg_mode' = REG_OFF]_vars

\* rgltrSetup called again after Track: the mode is Off and the controllers
\* that Track started are still running
C15_Witness ==
    /\ setup_pc = "running"
    /\ reg_mode = REG_OFF
    /\ running = AllStarted
    /\ ticks >= 1

(* C16: in every mode, the pitch error a cycle records in its snapshot is  *)
(* the output of the yaw rate filter on the pitch error the cycle          *)
(* extracted, when a yaw rate filter is attached, and that pitch error     *)
(* itself when none is; the elevator command of a Track cycle is the pitch *)
(* controller's output on the unfiltered pitch error.                      *)
C16_PitchErrFilteredAfterModeBranch ==
    /\ (Published /\ yawRateFilter # "NULL")
          => Snapshot.error.y = Filt("yaw", RawPitchErr)
    /\ (Published /\ yawRateFilter = "NULL")
          => Snapshot.error.y = Const(RawPitchErr)
    /\ (Published /\ CycleDone /\ reg_mode = REG_TRACK)
          => issued[3] = [cmd |-> "servoSet", val |-> Pid("pitch", RawPitchErr)]

\* a Track cycle with a filter attached and a pitch error of a half turn
C16_Witness ==
    /\ Published
    /\ CycleDone
    /\ reg_mode = REG_TRACK
    /\ yawRateFilter = "filter"
    /\ RawPitchErr # 0
    /\ Snapshot.error.y = Filt("yaw", RawPitchErr)
    /\ issued[3].val = Pid("pitch", RawPitchErr)

-----------------------------------------------------------------------------
(* Properties of the reader under preemption *)

(* C17: with control cycles running at any point of a rgltrGetState call,  *)
(* the slot the reader holds is never the slot a cycle holds and is not    *)
(* written while the reader holds it, so that the buffer the call returns  *)
(* is, in all its fields, the snapshot one cycle published.                *)
C17_NoTornRead ==
    /\ [](ReaderHolds \cap CycleHolds = {})
    /\ [][\A s \in ReaderHolds : reg_state'[s] = reg_state[s]]_vars
    /\ [](get.pc = "return"
            => /\ dst = reg_state[get.src]
               /\ dst.time \in Range(published))
    /\ []((get.pc = "done" /\ get.src # NULL)
            => /\ dst.time = delivered[Len(delivered)]
               /\ dst.time \in Range(published))

\* the reader is in the middle of its copy while a cycle holds a slot it
\* had to reclaim from the active ones
C17_Witness ==
    /\ get.pc = "copy2"
    /\ cyc.pc = "write"
    /\ cyc.state # get.src
    /\ Tagged("idle") = {}
    /\ reclaimed # {}
    /\ dst.time = reg_state[get.src].time

(* C18: the thrust, steer and elevator a cycle stores in the snapshot it   *)
(* publishes are the values it then commands to the motor driver and the   *)
(* servo; the reference and the pose of the snapshot are the ones the      *)
(* cycle extracted its error from.                                         *)
C18_SnapshotMatchesCommands ==
    /\ Published
          => /\ Snapshot.u = <<cyc.thrust, cyc.steer, cyc.elevator>>
             /\ Snapshot.ref = reference
             /\ Snapshot.pose = cyc.pose
             /\ \E e \in ExtractError(Snapshot.ref, Snapshot.pose) :
                   /\ Snapshot.error.w = e.a
                   /\ Snapshot.error.x = Const(e.roll_err)
                   /\ Snapshot.error.z = Const(e.yaw_err)
    /\ (Published /\ CycleDone)
          => issued = Commands(Snapshot.u[2], Snapshot.u[1], Snapshot.u[3])

\* a remote control cycle: the three overrides, all different, are in the
\* snapshot and on the actuators
C18_Witness ==
    /\ Published
    /\ CycleDone
    /\ reg_mode = REG_REMOTE_CONTROL
    /\ Snapshot.u = <<Const(1), Const(2), Const(3)>>
    /\ issued = Commands(Const(2), Const(1), Const(3))
    /\ Snapshot.ref # Snapshot.pose

-----------------------------------------------------------------------------
(* Properties of the servo enable line and of rgltrSetMode *)

(* C19: in every state reached by calls of rgltrSetup, rgltrSetMode and    *)
(* rgltrRunController the servo is disabled when the mode is Off and       *)
(* enabled when the mode is Track or RemoteControl.                        *)
C19_ServoFollowsMode ==
    /\ reg_mode = REG_OFF => ~servo_on
    /\ reg_mode \in {REG_TRACK, REG_REMOTE_CONTROL} => servo_on

\* the values of an unsigned char that are no mode
OtherFlags == (0..255) \ Modes

(* C20: rgltrSetMode called with a flag that is none of Off, Track and     *)
(* RemoteControl can be taken wherever a configuration call can, and       *)
(* leaves the mode, the running flags of the three controllers, the servo  *)
(* enable line and everything else as they were.                           *)
C20_UnknownFlagChangesNothing ==
    /\ \A flag \in OtherFlags : SetModeResult(flag, ModeState) = ModeState
    /\ ConfigCallAllowed
          => /\ ENABLED rgltrSetMode(FlagOther)
             /\ ~ENABLED <<rgltrSetMode(FlagOther)>>_vars

\* Track, after a cycle has run in it: the call with an unknown flag can be
\* made and has no outcome but the state itself
C20_Witness ==
    /\ ConfigCallAllowed
    /\ FlagOther \in OtherFlags
    /\ ModeState = AfterSetMode(REG_TRACK)
    /\ Len(issued) = 3
    /\ issued[1].val.op = "ctrlRunPid"
    /\ ENABLED (rgltrSetMode(FlagOther) /\ UNCHANGED vars)

====
